---- MODULE Spec2Model ----
(***************************************************************************)
(* The "submit" entrypoint of the Agent Dark Pool payment proxy            *)
(* (src/src/index.ts): one async handler that reads the service credential *)
(* from the environment, forwards the validated input to the backend with  *)
(* one fetch, reads the response body as JSON and maps every outcome to    *)
(* an {output, usage} pair.                                                *)
(*                                                                         *)
(* JavaScript values are modelled as tagged pairs <<type, text>>, so that  *)
(* undefined, null, "", "7" and 7 are all different values, as they are    *)
(* for the || operator, for template literals and for the output schema.   *)
(***************************************************************************)
EXTENDS Integers, Sequences, FiniteSets, TLC

VARIABLES env, mock, pc, input, apiKey, backendUrl, response, ret, calls, console

vars == <<env, mock, pc, input, apiKey, backendUrl, response, ret, calls, console>>

(***************************************************************************)
(* Bounds                                                                  *)
(***************************************************************************)
\* Number of submit invocations that may be in flight together.
NumInv == 2

Inv == 1..NumInv

(***************************************************************************)
(* JavaScript values                                                       *)
(***************************************************************************)
Undefined == <<"undefined", "">>

Null == <<"null", "">>

Str(s) == <<"string", s>>

Num(t) == <<"number", t>>

Bool(b) == <<"boolean", IF b THEN "true" ELSE "false">>

TypeOf(v) == v[1]

\* ToBoolean, as used by `!apiKey` and by the || operator.
Truthy(v) == v \notin {Undefined, Null, Str(""), Num("0"), Bool(FALSE)}

\* a || b
Or(a, b) == IF Truthy(a) THEN a ELSE b

\* `${v}` inside a template literal (ToString).
Template(v) == IF TypeOf(v) \in {"undefined", "null"} THEN TypeOf(v) ELSE v[2]

(***************************************************************************)
(* The validated input                                                     *)
(***************************************************************************)
AgentIds == {Str("agent-1")}

TargetEndpoints == {Str("https://api.example.com/x402")}

\* request_payload is a record of arbitrary JSON values, kept as its
\* members in insertion order.
RequestPayloads == { <<>>, << <<"to", Str("0xabc")>>, <<"amount", Num("5")>> >> }

PaymentAmounts == {Str("10.00"), Str("0.50")}

DarkPoolSubmitInputSchema(in) ==
    /\ TypeOf(in.agent_id) = "string" /\ in.agent_id[2] # ""
    /\ in.target_endpoint \in TargetEndpoints
    /\ in.request_payload \in RequestPayloads
    /\ in.payment_amount \in PaymentAmounts

Inputs ==
    { in \in [agent_id : AgentIds, target_endpoint : TargetEndpoints,
              request_payload : RequestPayloads, payment_amount : PaymentAmounts] :
        DarkPoolSubmitInputSchema(in) }

NoInput ==
    [agent_id |-> Undefined, target_endpoint |-> Undefined,
     request_payload |-> <<>>, payment_amount |-> Undefined]

(***************************************************************************)
(* The output                                                              *)
(***************************************************************************)
DarkPoolSubmitOutputSchema(o) ==
    /\ TypeOf(o.success) = "boolean"
    /\ TypeOf(o.transaction_id) \in {"string", "undefined"}
    /\ TypeOf(o.message) = "string"
    /\ TypeOf(o.estimated_execution) \in {"string", "undefined"}

TokensEarly == 10

TokensForwarded == 50

DefaultBackend == "https://agent-dark-pool.pulseradar.workers.dev"

MissingKeyMessage == "Service misconfigured: Missing API key"

DefaultSuccessMessage == "Transaction submitted to dark pool"

(***************************************************************************)
(* JSON.stringify of the request body                                      *)
(***************************************************************************)
\* JSON text of a primitive value.
StringifyPrimitive(v) ==
    CASE TypeOf(v) = "string" -> "\"" \o v[2] \o "\""
      [] TypeOf(v) = "number" -> v[2]
      [] TypeOf(v) = "boolean" -> v[2]
      [] OTHER -> "null"

\* JSON members of a record of primitives, in insertion order.
StringifyRecord(members) ==
    [k \in 1..Len(members) |-> <<members[k][1], StringifyPrimitive(members[k][2])>>]

\* Fault: payment_amount is sent as a number instead of as its text.
RequestBodyNumericAmount(in) ==
    << <<"agent_id", StringifyPrimitive(in.agent_id)>>,
       <<"target_endpoint", StringifyPrimitive(in.target_endpoint)>>,
       <<"request_payload", StringifyRecord(in.request_payload)>>,
       <<"payment_amount", StringifyPrimitive(Num(in.payment_amount[2]))>> >>

\* body: JSON.stringify({agent_id, target_endpoint, request_payload, payment_amount})
RequestBody(in) ==
    << <<"agent_id", StringifyPrimitive(in.agent_id)>>,
       <<"target_endpoint", StringifyPrimitive(in.target_endpoint)>>,
       <<"request_payload", StringifyRecord(in.request_payload)>>,
       <<"payment_amount", StringifyPrimitive(in.payment_amount)>> >>

\* The fetch call of the handler.
FetchRequest(url, key, in) ==
    [url |-> Template(url) \o "/submit",
     method |-> "POST",
     headers |-> << <<"Content-Type", "application/json">>,
                    <<"X-Internal-API-Key", Template(key)>> >>,
     body |-> RequestBody(in)]

(***************************************************************************)
(* The backend                                                             *)
(***************************************************************************)
\* A response body as response.json() sees it: text that is not JSON, or
\* the JSON value null, a JSON number, or a JSON object with any of the
\* fields success, transaction_id, message, estimated_execution, error
\* (Undefined marks a field the object does not have).
Body(kind, s, t, m, x, e) ==
    [kind |-> kind, success |-> s, transaction_id |-> t, message |-> m,
     estimated_execution |-> x, error |-> e]

NoFields(kind) == Body(kind, Undefined, Undefined, Undefined, Undefined, Undefined)

SuccessValues == {Undefined, Bool(TRUE), Bool(FALSE), Str("yes")}

TransactionIds == {Undefined, Str("tx123")}

Messages == {Undefined, Str(""), Str("queued"), Num("7")}

Estimates == {Undefined, Str("30s")}

Errors == {Undefined, Str(""), Str("overloaded"), Num("7")}

Bodies ==
    {NoFields("notjson"), NoFields("null"), NoFields("number")}
    \cup { Body("object", s, t, m, x, e) :
             s \in SuccessValues, t \in TransactionIds, m \in Messages,
             x \in Estimates, e \in Errors }

Statuses == {200, 201, 404, 503}

\* Error texts of a fetch that cannot complete.
TransportErrors == {"ECONNREFUSED", "fetch failed"}

Rejection(text) == [kind |-> "reject", text |-> text, status |-> 0, body |-> NoFields("notjson")]

Response(status, body) == [kind |-> "response", text |-> "", status |-> status, body |-> body]

NoResponse == Rejection("")

\* Everything the backend and the transport can do with one call.
Answers ==
    { Rejection(t) : t \in TransportErrors }
    \cup { Response(st, b) : st \in Statuses, b \in Bodies }

\* The answers a deterministic backend mock is programmed with.
MockAnswers ==
    { Rejection("ECONNREFUSED"),
      Response(200, Body("object", Bool(TRUE), Str("tx123"), Undefined, Str("30s"), Undefined)),
      Response(200, Body("object", Bool(FALSE), Undefined, Str("queued"), Undefined, Undefined)),
      Response(503, Body("object", Undefined, Undefined, Undefined, Undefined, Str("overloaded"))),
      Response(503, NoFields("notjson")),
      Response(200, NoFields("null")) }

\* The inputs submitted against the deterministic mock.
MockInputs == { in \in Inputs : in.request_payload = <<>> }

\* process.env: each variable is unset, empty or set.
Environments ==
    [INTERNAL_API_KEY : {Undefined, Str(""), Str("s3cret")},
     CLOUDFLARE_BACKEND : {Undefined, Str("https://backend.example")}]

(***************************************************************************)
(* response.ok, response.json() and property reads on the parsed body      *)
(***************************************************************************)
\* response.ok
Ok(status) == status >= 200 /\ status <= 299

\* response.json() rejects with a SyntaxError when the body is not JSON.
JsonThrows(body) == body.kind = "notjson"

SyntaxErrorText == "Unexpected token < in JSON at position 0"

\* Reading a property of null throws a TypeError; every other value
\* (number, object) yields the field or undefined.
ReadThrows(body) == body.kind = "null"

TypeErrorText(field) == "Cannot read properties of null (reading '" \o field \o "')"

(***************************************************************************)
(* The handler's four return statements                                    *)
(***************************************************************************)
Output(s, t, m, x) ==
    [success |-> s, transaction_id |-> t, message |-> m, estimated_execution |-> x]

\* Fault: the credential test only recognises null, which process.env
\* never yields.
MissingKeyNullOnly(key) == key = Null

\* if (!apiKey)
MissingKey(key) == ~Truthy(key)

\* return of the `if (!apiKey)` branch
MisconfiguredReturn ==
    [output |-> Output(Bool(FALSE), Undefined, Str(MissingKeyMessage), Undefined),
     usage |-> TokensEarly]

\* Fault: the error branch copies the body's transaction_id through.
BackendErrorReturnWithId(status, data) ==
    [output |-> Output(Bool(FALSE), data.transaction_id,
                       Or(data.error, Str("Backend error: " \o ToString(status))),
                       Undefined),
     usage |-> TokensEarly]

\* return of the `if (!response.ok)` branch
BackendErrorReturn(status, data) ==
    [output |-> Output(Bool(FALSE), Undefined,
                       Or(data.error, Str("Backend error: " \o ToString(status))),
                       Undefined),
     usage |-> TokensEarly]

\* Fault: success is hard-coded instead of mirrored from the body.
SuccessReturnHardcoded(data) ==
    [output |-> Output(Bool(TRUE), data.transaction_id,
                       Or(data.message, Str(DefaultSuccessMessage)),
                       data.estimated_execution),
     usage |-> TokensForwarded]

\* return after a success status
SuccessReturn(data) ==
    [output |-> Output(data.success, data.transaction_id,
                       Or(data.message, Str(DefaultSuccessMessage)),
                       data.estimated_execution),
     usage |-> TokensForwarded]

\* Fault: the catch block accounts the usage of a completed forward.
CatchReturnForwarded(errorText) ==
    [output |-> Output(Bool(FALSE), Undefined,
                       Str("Failed to submit transaction: " \o errorText), Undefined),
     usage |-> TokensForwarded]

\* return of the catch block
CatchReturn(errorText) ==
    [output |-> Output(Bool(FALSE), Undefined,
                       Str("Failed to submit transaction: " \o errorText), Undefined),
     usage |-> TokensEarly]

(***************************************************************************)
(* State                                                                   *)
(*   env         process.env, read by every invocation, never written      *)
(*   mock        for each input callers submit, the answer the backend is  *)
(*               programmed to give to the call made for it; an empty      *)
(*               programme is a live backend, which may answer anything    *)
(*   pc          where each invocation of the handler is: "start" (not yet *)
(*               past the credential check), "fetch" (suspended at         *)
(*               await fetch), "json" (suspended at await response.json()) *)
(*               and "done" (returned)                                     *)
(*   input, apiKey, backendUrl, response   the handler's parameter and     *)
(*               locals, one copy per invocation                           *)
(*   ret         what each invocation returned                             *)
(*   calls       the outbound requests each invocation issued              *)
(*   console     what each invocation wrote with console.error             *)
(***************************************************************************)
InitHandlers ==
    /\ env \in Environments
    /\ pc = [i \in Inv |-> "start"]
    /\ input = [i \in Inv |-> NoInput]
    /\ apiKey = [i \in Inv |-> Undefined]
    /\ backendUrl = [i \in Inv |-> Undefined]
    /\ response = [i \in Inv |-> NoResponse]
    /\ ret = [i \in Inv |-> <<>>]
    /\ calls = [i \in Inv |-> <<>>]
    /\ console = [i \in Inv |-> <<>>]

\* A backend that may do anything with any call.
Init ==
    /\ InitHandlers
    /\ mock = [in \in Inputs |-> {}]

\* A deterministic backend mock: one programmed answer per input.
InitMock ==
    /\ InitHandlers
    /\ mock \in { [in \in MockInputs |-> {f[in]}] : f \in [MockInputs -> MockAnswers] }

\* The answers the backend may give to the call of invocation i.
Answer(i) == IF mock[input[i]] = {} THEN Answers ELSE mock[input[i]]

\* Fault: the response is kept in one module-level variable that every
\* invocation reads.
StoreResponseShared(i, a) == response' = [j \in Inv |-> a]

\* const response = await fetch(...)
StoreResponse(i, a) == response' = [response EXCEPT ![i] = a]

\* const data = await response.json()
Data(i) == response[i].body

\* return {output, usage}
Return(i, r) ==
    /\ ret' = [ret EXCEPT ![i] = Append(@, r)]
    /\ pc' = [pc EXCEPT ![i] = "done"]

\* Fault: the catch block issues the call once more before giving up.
CatchRetry(i, errorText) ==
    /\ console' = [console EXCEPT ![i] = <<errorText>>]
    /\ IF Len(calls[i]) < 2
         THEN /\ calls' = [calls EXCEPT ![i] = Append(@, calls[i][1])]
              /\ pc' = [pc EXCEPT ![i] = "fetch"]
              /\ UNCHANGED ret
         ELSE /\ ret' = [ret EXCEPT ![i] = <<CatchReturn(errorText)>>]
              /\ pc' = [pc EXCEPT ![i] = "done"]
              /\ UNCHANGED calls

\* catch (error) { console.error(...); return {...} }
Catch(i, errorText) ==
    /\ console' = [console EXCEPT ![i] = Append(@, errorText)]
    /\ Return(i, CatchReturn(errorText))
    /\ UNCHANGED calls

\* The handler is entered with a validated input and runs to its first
\* await: it returns at once when the credential is missing and otherwise
\* issues the fetch.
Submit(i) ==
    /\ pc[i] = "start"
    /\ \E in \in DOMAIN mock :
         LET key == env.INTERNAL_API_KEY
             url == Or(env.CLOUDFLARE_BACKEND, Str(DefaultBackend))
         IN  /\ input' = [input EXCEPT ![i] = in]
             /\ apiKey' = [apiKey EXCEPT ![i] = key]
             /\ backendUrl' = [backendUrl EXCEPT ![i] = url]
             /\ IF MissingKey(key)
                  THEN /\ Return(i, MisconfiguredReturn)
                       /\ UNCHANGED calls
                  ELSE /\ calls' = [calls EXCEPT ![i] = Append(@, FetchRequest(url, key, in))]
                       /\ pc' = [pc EXCEPT ![i] = "fetch"]
                       /\ UNCHANGED ret
    /\ UNCHANGED <<env, mock, response, console>>

\* The fetch promise rejects: the call could not complete.
FetchRejects(i) ==
    /\ pc[i] = "fetch"
    /\ \E a \in Answer(i) :
         /\ a.kind = "reject"
         /\ Catch(i, a.text)
    /\ UNCHANGED <<env, mock, input, apiKey, backendUrl, response>>

\* The fetch promise resolves with the backend's response; the handler
\* goes on to await response.json().
FetchResolves(i) ==
    /\ pc[i] = "fetch"
    /\ \E a \in Answer(i) :
         /\ a.kind = "response"
         /\ StoreResponse(i, a)
    /\ pc' = [pc EXCEPT ![i] = "json"]
    /\ UNCHANGED <<env, mock, input, apiKey, backendUrl, ret, calls, console>>

\* response.json() rejects: the body is not JSON.
JsonRejects(i) ==
    /\ pc[i] = "json"
    /\ JsonThrows(Data(i))
    /\ Catch(i, SyntaxErrorText)
    /\ UNCHANGED <<env, mock, input, apiKey, backendUrl, response>>

\* response.json() resolves with data; the rest of the try block runs.
JsonResolves(i) ==
    /\ pc[i] = "json"
    /\ ~JsonThrows(Data(i))
    /\ LET data == Data(i)
           status == response[i].status
       IN  IF ReadThrows(data)
             THEN Catch(i, TypeErrorText(IF Ok(status) THEN "success" ELSE "error"))
             ELSE /\ Return(i, IF Ok(status) THEN SuccessReturn(data)
                                             ELSE BackendErrorReturn(status, data))
                  /\ UNCHANGED <<calls, console>>
    /\ UNCHANGED <<env, mock, input, apiKey, backendUrl, response>>

Step(i) ==
    \/ Submit(i)
    \/ FetchRejects(i)
    \/ FetchResolves(i)
    \/ JsonRejects(i)
    \/ JsonResolves(i)

\* One invocation against a backend that may do anything.
Next == \E i \in {1} : Step(i)

Spec == Init /\ [][Next]_vars

\* Interleaved invocations against a deterministic backend mock.
NextMock == \E i \in Inv : Step(i)

SpecMock == InitMock /\ [][NextMock]_vars

(***************************************************************************)
(* Vocabulary of the properties                                            *)
(***************************************************************************)
Done(i) == pc[i] = "done"

\* The {output, usage} pair invocation i returned.
Result(i) == ret[i][1]

\* The credential is set to a non-empty value (what `!apiKey` tests).
CredentialPresent == env.INTERNAL_API_KEY \notin {Undefined, Str("")}

\* The backend delivered a response to invocation i's call.
Delivered(i) == response[i].kind = "response"

\* Invocation i's call could not complete.
TransportFailed(i) == Done(i) /\ calls[i] # <<>> /\ ~Delivered(i)

\* The delivered body reads as JSON with properties that can be read.
Readable(body) == body.kind \in {"number", "object"}

\* The states of the handler's state machine.
State(i) ==
    CASE pc[i] = "start" -> "AWAITING_CREDENTIAL"
      [] pc[i] \in {"fetch", "json"} -> "FORWARDING"
      [] pc[i] = "done" -> "COMPLETE"

TypeOK ==
    /\ env \in Environments
    /\ pc \in [Inv -> {"start", "fetch", "json", "done"}]
    /\ \A i \in Inv :
         /\ input[i] \in Inputs \cup {NoInput}
         /\ response[i] \in Answers \cup {NoResponse}
         /\ Len(ret[i]) <= 1 /\ Len(console[i]) <= 1

(***************************************************************************)
(* C1: every invocation that has ended has returned exactly one result,    *)
(* whose success is a boolean and whose message is a string, with a usage  *)
(* value, whatever the configuration and whatever the backend did.         *)
(***************************************************************************)
C1_AlwaysValidResult ==
    \A i \in Inv :
      Done(i) =>
        /\ Len(ret[i]) = 1
        /\ TypeOf(Result(i).output.success) = "boolean"
        /\ TypeOf(Result(i).output.message) = "string"
        /\ Result(i).usage \in Nat

(***************************************************************************)
(* C2: with the credential absent, an invocation that has been entered has *)
(* returned exactly {success:false, message:"Service misconfigured:        *)
(* Missing API key"}, without transaction_id or estimated_execution, and   *)
(* has made no outbound call.                                              *)
(***************************************************************************)
C2_MissingCredential ==
    \A i \in Inv :
      (pc[i] # "start" /\ env.INTERNAL_API_KEY \in {Undefined, Str("")}) =>
        /\ Done(i)
        /\ Len(ret[i]) = 1
        /\ Result(i).output =
             [success |-> Bool(FALSE), transaction_id |-> Undefined,
              message |-> Str("Service misconfigured: Missing API key"),
              estimated_execution |-> Undefined]
        /\ calls[i] = <<>>

C2_Witness ==
    \E i \in Inv : Done(i) /\ env.INTERNAL_API_KEY = Undefined /\ Len(ret[i]) = 1

(***************************************************************************)
(* C3: an invocation makes at most one outbound call: one POST to          *)
(* <backendBaseUrl>/submit once it is past the credential check with the   *)
(* credential present, none with it absent; no step adds a second call     *)
(* (no retry after a transport failure, an unreadable body or a            *)
(* non-success status); and every step keeps the state or moves it forward *)
(* along AWAITING_CREDENTIAL -> FORWARDING -> COMPLETE.                    *)
(***************************************************************************)
C3_CallCount ==
    \A i \in Inv :
      /\ Len(calls[i]) <= 1
      /\ pc[i] # "start" => Len(calls[i]) = (IF CredentialPresent THEN 1 ELSE 0)
      /\ \A k \in 1..Len(calls[i]) :
           /\ calls[i][k].method = "POST"
           /\ calls[i][k].url =
                (IF env.CLOUDFLARE_BACKEND \in {Undefined, Str("")}
                   THEN "https://agent-dark-pool.pulseradar.workers.dev"
                   ELSE env.CLOUDFLARE_BACKEND[2]) \o "/submit"

C3_Forward ==
    \A i \in Inv :
      \/ State(i)' = State(i) /\ calls'[i] = calls[i]
      \/ State(i) = "AWAITING_CREDENTIAL" /\ State(i)' = "FORWARDING" /\ CredentialPresent
      \/ State(i) = "AWAITING_CREDENTIAL" /\ State(i)' = "COMPLETE" /\ ~CredentialPresent
      \/ State(i) = "FORWARDING" /\ State(i)' = "COMPLETE" /\ calls'[i] = calls[i]

\* C3: at most one outbound call per invocation, no retry, and the state
\* only moves forward.
C3_AtMostOneCall == [](C3_CallCount) /\ [][C3_Forward]_vars

\* A transport failure has been handled and the call was not repeated.
C3_Witness ==
    \E i \in Inv : TransportFailed(i) /\ Len(calls[i]) = 1 /\ console[i] # <<>>

C5_BackendError ==
    \A i \in Inv :
      (Done(i) /\ Delivered(i) /\ ~Ok(response[i].status)) =>
        LET body == response[i].body
            out == Result(i).output
        IN  /\ out.success = Bool(FALSE)
            /\ out.message =
                 (IF Truthy(body.error) THEN body.error
                  ELSE Str("Backend error: " \o ToString(response[i].status)))

(***************************************************************************)
(* C6: a call that could not complete ends in exactly {success:false,      *)
(* message:"Failed to submit transaction: T"} with T logged; and a message *)
(* starting with "Failed to submit transaction:" is returned only then,    *)
(* never once the backend has delivered a response.                        *)
(***************************************************************************)
ErrorTexts ==
    TransportErrors \cup {SyntaxErrorText, TypeErrorText("success"), TypeErrorText("error")}

FailedToSubmit(out) ==
    out.message \in { Str("Failed to submit transaction: " \o t) : t \in ErrorTexts }

\* C6: a transport failure gives exactly the "Failed to submit
\* transaction: T" result with a log entry, and only a transport failure
\* gives a message with that prefix.
C6_TransportFailureOnly ==
    \A i \in Inv :
      Done(i) =>
        /\ TransportFailed(i) =>
             \E t \in TransportErrors :
               /\ Result(i).output =
                    [success |-> Bool(FALSE), transaction_id |-> Undefined,
                     message |-> Str("Failed to submit transaction: " \o t),
                     estimated_execution |-> Undefined]
               /\ console[i] = <<t>>
        /\ FailedToSubmit(Result(i).output) => ~Delivered(i)

JsonPrimitives ==
    AgentIds \cup TargetEndpoints \cup PaymentAmounts
    \cup UNION { { p[k][2] : k \in 1..Len(p) } : p \in RequestPayloads }
    \cup { Num(a[2]) : a \in PaymentAmounts } \cup {Str("5"), Null}

\* What a JSON parser reads from the text of a primitive.
ParsePrimitive(text) ==
    IF \E v \in JsonPrimitives : StringifyPrimitive(v) = text
      THEN CHOOSE v \in JsonPrimitives : StringifyPrimitive(v) = text
      ELSE Undefined

ParseRecord(members) ==
    [k \in 1..Len(members) |-> <<members[k][1], ParsePrimitive(members[k][2])>>]

C8_Body ==
    \A i \in Inv : \A k \in 1..Len(calls[i]) :
      LET req == calls[i][k]
      IN  /\ Len(req.body) = 4
          /\ req.body[1][1] = "agent_id"
          /\ ParsePrimitive(req.body[1][2]) = input[i].agent_id
          /\ req.body[2][1] = "target_endpoint"
          /\ ParsePrimitive(req.body[2][2]) = input[i].target_endpoint
          /\ req.body[3][1] = "request_payload"
          /\ ParseRecord(req.body[3][2]) = input[i].request_payload
          /\ req.body[4][1] = "payment_amount"
          /\ ParsePrimitive(req.body[4][2]) = input[i].payment_amount
          /\ req.headers = << <<"Content-Type", "application/json">>,
                              <<"X-Internal-API-Key", env.INTERNAL_API_KEY[2]>> >>
          /\ input[i] \in Inputs

C8_InputKept == \A i \in Inv : pc[i] # "start" => input'[i] = input[i]

\* C8: the body sent is the four input fields verbatim, with the two
\* headers, and the input is left unchanged.
C8_RequestVerbatim == [](C8_Body) /\ [][C8_InputKept]_vars

\* A call was made for an input with a non-empty payload.
C8_Witness ==
    \E i \in Inv :
      /\ Len(calls[i]) = 1
      /\ input[i].request_payload # <<>>
      /\ input[i].payment_amount = Str("10.00")

C9_OwnAnswer ==
    \A i \in Inv :
      /\ Delivered(i) => (calls[i] # <<>> /\ input[i] \in DOMAIN mock /\ response[i] \in Answer(i))
      /\ \A j \in Inv :
           (Done(i) /\ Done(j)
              /\ (input[i] = input[j] \/ Answer(i) = Answer(j))) => ret[i] = ret[j]

C9_Frame ==
    /\ env' = env
    /\ mock' = mock
    /\ \A j \in Inv :
         pc'[j] = pc[j] =>
           /\ input'[j] = input[j] /\ apiKey'[j] = apiKey[j]
           /\ backendUrl'[j] = backendUrl[j] /\ response'[j] = response[j]
           /\ ret'[j] = ret[j] /\ calls'[j] = calls[j] /\ console'[j] = console[j]

\* C9: interleaved invocations are independent of each other.
C9_Independent == [](C9_OwnAnswer) /\ [][C9_Frame]_vars

\* Two invocations with identical input both forwarded, both got the
\* backend's response and both returned.
C9_Witness ==
    \E i, j \in Inv :
      /\ i # j /\ Done(i) /\ Done(j)
      /\ input[i] = input[j]
      /\ Len(calls[i]) = 1 /\ Len(calls[j]) = 1
      /\ Delivered(i) /\ Delivered(j)
      /\ ret[i] = ret[j] /\ Len(ret[i]) = 1

====
